---- MODULE Spec2Model ----
(***************************************************************************)
(* Model of the symbolic value algebra (analyzer/mod.rs: JsValue,          *)
(* is_string, add_alt, normalize) and of the request parser                *)
(* (resolve/parse.rs: RequestRef::parse).                                  *)
(*                                                                         *)
(* A JsValue is a record [kind, tag, str, list]:                           *)
(*   kind  the enum variant,                                               *)
(*   tag   the sub-variant (Lit kind, FreeVarKind, WellKnown*Kind),        *)
(*   str   a string payload, as a sequence of one-character strings,       *)
(*   list  the children visited by for_each_children_mut, in order         *)
(*         (Call: callee then arguments; Member: obj then prop;            *)
(*         Function: the return value).                                    *)
(***************************************************************************)
EXTENDS Naturals, Sequences, FiniteSets

VARIABLES
    self,       \* the JsValue operated on (`&mut self`)
    orig,       \* the value as first constructed
    prev,       \* the value before the last call
    arg,        \* the argument of the last add_alt call
    calls,      \* the number of calls made on self
    result,     \* the answer of is_string: "none" before the call
    request,    \* the string handed to parse
    parsed,     \* the Request returned by parse
    answers,    \* what the visitor handed to visit_mut answers, call by call
    visited,    \* the values the visitor was called on, in call order
    graph,      \* the linker's graph G: identifier key -> value
    root,       \* the value handed to link
    cache,      \* the link cache C
    stack,      \* the pending link calls, innermost last
    linked,     \* the results of the link calls that have returned
    hit,        \* the keys met again while marked in progress
    begun       \* the keys marked in progress, in the order they were marked

visitVars == <<answers, visited>>

linkVars == <<graph, root, cache, stack, linked, hit, begun>>

vars == <<self, orig, prev, arg, calls, result, request, parsed, visitVars, linkVars>>

\* No visit_mut call is modelled.
NoVisit == answers = <<>> /\ visited = <<>>

\* No link call is modelled.
NoLink ==
    /\ graph = <<>>
    /\ root = [kind |-> "Unknown", tag |-> "", str |-> <<>>, list |-> <<>>]
    /\ cache = <<>>
    /\ stack = <<>>
    /\ linked = <<>>
    /\ hit = {}
    /\ begun = <<>>

(* ---------------------------------------------------------------------- *)
(* JsValue                                                                  *)
(* ---------------------------------------------------------------------- *)

Mk(kind, tag, str, list) == [kind |-> kind, tag |-> tag, str |-> str, list |-> list]

StrConst(chars) == Mk("Constant", "Str", chars, <<>>)

NumConst == Mk("Constant", "Num", <<"1">>, <<>>)

Variable(name) == Mk("Variable", "", <<name>>, <<>>)

FreeVar(kind) == Mk("FreeVar", kind, <<>>, <<>>)

Alternatives(list) == Mk("Alternatives", "", <<>>, list)

Concat(list) == Mk("Concat", "", <<>>, list)

Add(list) == Mk("Add", "", <<>>, list)

Array(list) == Mk("Array", "", <<>>, list)

Call(callee, args) == Mk("Call", "", <<>>, <<callee>> \o args)

Member(obj, prop) == Mk("Member", "", <<>>, <<obj, prop>>)

Function(ret) == Mk("Function", "", <<>>, <<ret>>)

\* JsValue::default()
Default == Mk("Unknown", "", <<>>, <<>>)

ListKinds == {"Alternatives", "Concat", "Add", "Array"}

IsStrConst(v) == v.kind = "Constant" /\ v.tag = "Str"

IsEmptyStr(v) == IsStrConst(v) /\ v.str = <<>>

(* ---------------------------------------------------------------------- *)
(* is_string                                                                *)
(* ---------------------------------------------------------------------- *)

\* is_string with `any` in place of `all` in the Alternatives arm.
RECURSIVE is_string_any(_)
is_string_any(v) ==
    CASE v.kind = "Constant" /\ v.tag = "Str" -> TRUE
      [] v.kind = "Concat" -> TRUE
      [] v.kind \in {"Constant", "Array", "Url", "Module", "Function"} -> FALSE
      [] v.kind = "FreeVar" /\ v.tag = "Dirname" -> TRUE
      [] v.kind = "FreeVar" -> FALSE
      [] v.kind = "Add" -> \E i \in 1..Len(v.list) : is_string_any(v.list[i])
      [] v.kind = "Alternatives" -> \E i \in 1..Len(v.list) : is_string_any(v.list[i])
      [] v.kind \in {"Variable", "Unknown", "Argument"} -> FALSE
      [] v.kind = "Call" /\ v.list[1].kind = "FreeVar"
            /\ v.list[1].tag = "RequireResolve" -> TRUE
      [] v.kind \in {"Call", "Member"} -> FALSE
      [] v.kind \in {"WellKnownObject", "WellKnownFunction"} -> FALSE

RECURSIVE is_string(_)
is_string(v) ==
    CASE v.kind = "Constant" /\ v.tag = "Str" -> TRUE
      [] v.kind = "Concat" -> TRUE
      [] v.kind \in {"Constant", "Array", "Url", "Module", "Function"} -> FALSE
      [] v.kind = "FreeVar" /\ v.tag = "Dirname" -> TRUE
      [] v.kind = "FreeVar" -> FALSE
      [] v.kind = "Add" -> \E i \in 1..Len(v.list) : is_string(v.list[i])
      [] v.kind = "Alternatives" -> \A i \in 1..Len(v.list) : is_string(v.list[i])
      [] v.kind \in {"Variable", "Unknown", "Argument"} -> FALSE
      [] v.kind = "Call" /\ v.list[1].kind = "FreeVar"
            /\ v.list[1].tag = "RequireResolve" -> TRUE
      [] v.kind \in {"Call", "Member"} -> FALSE
      [] v.kind \in {"WellKnownObject", "WellKnownFunction"} -> FALSE

(* ---------------------------------------------------------------------- *)
(* add_alt                                                                  *)
(* ---------------------------------------------------------------------- *)

Contains(list, v) == \E i \in 1..Len(list) : list[i] = v

\* add_alt without the `!list.contains(&v)` test.
add_alt_push(s, v) ==
    IF s = v THEN s
    ELSE IF s.kind = "Alternatives"
         THEN [s EXCEPT !.list = Append(s.list, v)]
         ELSE Alternatives(<<s, v>>)

add_alt(s, v) ==
    IF s = v THEN s
    ELSE IF s.kind = "Alternatives"
         THEN IF ~Contains(s.list, v) THEN [s EXCEPT !.list = Append(s.list, v)] ELSE s
         ELSE Alternatives(<<s, v>>)

(* ---------------------------------------------------------------------- *)
(* normalize                                                                *)
(* ---------------------------------------------------------------------- *)

\* Alternatives arm: the loop that extends `new` with a nested list or pushes.
RECURSIVE FlattenAlternatives(_)
FlattenAlternatives(list) ==
    IF list = <<>> THEN <<>>
    ELSE LET v == Head(list)
         IN (IF v.kind = "Alternatives" THEN v.list ELSE <<v>>)
                \o FlattenAlternatives(Tail(list))

\* Concat arm: v.retain(..) dropping empty string constants.
RetainNonEmpty(list) == SelectSeq(list, LAMBDA v : ~IsEmptyStr(v))

\* Concat arm: one iteration of `for v in take(v)` on the accumulator `new`.
ConcatStep(new, v) ==
    IF v.kind = "Concat" THEN new \o v.list
    ELSE IF IsStrConst(v)
         THEN IF new # <<>> /\ IsStrConst(new[Len(new)])
              THEN [new EXCEPT ![Len(new)] = StrConst(new[Len(new)].str \o v.str)]
              ELSE Append(new, v)
         ELSE Append(new, v)

RECURSIVE ConcatLoop(_, _)
ConcatLoop(new, list) ==
    IF list = <<>> THEN new
    ELSE ConcatLoop(ConcatStep(new, Head(list)), Tail(list))

ConcatArm(w) ==
    LET new == ConcatLoop(<<>>, RetainNonEmpty(w.list))
    IN IF Len(new) = 1 THEN new[1] ELSE [w EXCEPT !.list = new]

\* Add arm: the grouping of the operands accumulated before the first string.
AddPrefix(added) ==
    CASE Len(added) = 0 -> <<>>
      [] Len(added) = 1 -> <<added[1]>>
      [] OTHER -> <<Add(added)>>

\* Add arm: `while let Some(item) = iter.next()` from position i with `added`.
RECURSIVE AddLoop(_, _, _)
AddLoop(w, added, i) ==
    IF i > Len(w.list) THEN [w EXCEPT !.list = added]
    ELSE IF is_string(w.list[i])
         THEN Concat(AddPrefix(added) \o <<w.list[i]>>
                        \o SubSeq(w.list, i + 1, Len(w.list)))
         ELSE AddLoop(w, Append(added, w.list[i]), i + 1)

AddArm(w) == AddLoop(w, <<>>, 1)

RECURSIVE normalize(_)
normalize(v) ==
    LET w == [v EXCEPT !.list = [i \in 1..Len(v.list) |-> normalize(v.list[i])]]
    IN CASE w.kind = "Alternatives" -> [w EXCEPT !.list = FlattenAlternatives(w.list)]
         [] w.kind = "Concat" -> ConcatArm(w)
         [] w.kind = "Add" -> AddArm(w)
         [] OTHER -> w

(* ---------------------------------------------------------------------- *)
(* Request and RequestRef::parse                                            *)
(* A string is a sequence of one-character strings.                         *)
(* ---------------------------------------------------------------------- *)

Req(variant, path, module, protocol, remainer) ==
    [variant |-> variant, path |-> path, module |-> module,
     protocol |-> protocol, remainer |-> remainer]

NoRequest == Req("None", <<>>, <<>>, <<>>, <<>>)

\* The ASCII letters among the characters of the model ([A-Za-z]).
Letters == {"a"}

\* str::starts_with
starts_with(s, p) == Len(s) >= Len(p) /\ SubSeq(s, 1, Len(p)) = p

\* Regex character classes [^/\\], [^/] and `.` (any character but \n), each
\* given by the characters it excludes.
NotSlashNorBackslash == {"/", "\\"}

NotSlash == {"/"}

Dot == {"\n"}

\* The length of the longest run of characters of a class from position i
\* on: what a greedy `+` or `*` takes first.
RECURSIVE Run(_, _, _)
Run(s, i, excluded) ==
    IF i <= Len(s) /\ s[i] \notin excluded THEN 1 + Run(s, i + 1, excluded) ELSE 0

Max(S) == CHOOSE m \in S : \A n \in S : n <= m

NoCaptures == [matched |-> FALSE, g1 |-> <<>>, g2 |-> <<>>]

Captures(s, a, b) ==
    [matched |-> TRUE, g1 |-> SubSeq(s, 1, a), g2 |-> SubSeq(s, a + 1, b)]

\* WINDOWS_PATH without its second alternative: ^([A-Za-z]:\\)
WINDOWS_PATH_drive(s) ==
    Len(s) >= 3 /\ s[1] \in Letters /\ s[2] = ":" /\ s[3] = "\\"

\* WINDOWS_PATH: ^([A-Za-z]:\\|\\\\)
WINDOWS_PATH(s) ==
    \/ Len(s) >= 3 /\ s[1] \in Letters /\ s[2] = ":" /\ s[3] = "\\"
    \/ Len(s) >= 2 /\ s[1] = "\\" /\ s[2] = "\\"

\* URI_PATH with the '/' left out of the second group: ^([^/\\]+:)/(.+)
URI_PATH_skip_slash(s) ==
    LET ks == {k \in 1..Run(s, 1, NotSlashNorBackslash) :
                  /\ k + 3 <= Len(s)
                  /\ s[k + 1] = ":"
                  /\ s[k + 2] = "/"
                  /\ Run(s, k + 3, Dot) >= 1}
    IN IF ks = {} THEN NoCaptures
       ELSE LET k == Max(ks)
            IN [matched |-> TRUE, g1 |-> SubSeq(s, 1, k + 1),
                g2 |-> SubSeq(s, k + 3, k + 2 + Run(s, k + 3, Dot))]

\* URI_PATH: ^([^/\\]+:)(/.+)   The greedy [^/\\]+ gives back characters
\* until a ':' and then '/' and one more character follow.
URI_PATH(s) ==
    LET ks == {k \in 1..Run(s, 1, NotSlashNorBackslash) :
                  /\ k + 3 <= Len(s)
                  /\ s[k + 1] = ":"
                  /\ s[k + 2] = "/"
                  /\ Run(s, k + 3, Dot) >= 1}
    IN IF ks = {} THEN NoCaptures
       ELSE LET k == Max(ks)
            IN Captures(s, k + 1, k + 2 + Run(s, k + 3, Dot))

\* MODULE_PATH with an end anchor: ^((?:@[^/]+/)?[^/]+)(.*)$   A line break
\* after the module name then leaves no match.
MODULE_PATH_anchored(s) ==
    LET ks == {k \in 1..Run(s, 2, NotSlash) :
                  /\ s[1] = "@"
                  /\ k + 2 <= Len(s)
                  /\ s[k + 2] = "/"
                  /\ Run(s, k + 3, NotSlash) >= 1}
        m == IF s # <<>> /\ ks # {}
             THEN Max(ks) + 2 + Run(s, Max(ks) + 3, NotSlash)
             ELSE Run(s, 1, NotSlash)
    IN IF m >= 1 /\ m + Run(s, m + 1, Dot) = Len(s)
       THEN Captures(s, m, Len(s))
       ELSE NoCaptures

\* MODULE_PATH: ^((?:@[^/]+/)?[^/]+)(.*)   The optional scope group is tried
\* first; without it [^/]+ starts at the first character.
MODULE_PATH(s) ==
    LET ks == {k \in 1..Run(s, 2, NotSlash) :
                  /\ s[1] = "@"
                  /\ k + 2 <= Len(s)
                  /\ s[k + 2] = "/"
                  /\ Run(s, k + 3, NotSlash) >= 1}
    IN IF s # <<>> /\ ks # {}
       THEN LET k == Max(ks)
                m == k + 2 + Run(s, k + 3, NotSlash)
            IN Captures(s, m, m + Run(s, m + 1, Dot))
       ELSE IF Run(s, 1, NotSlash) >= 1
            THEN LET m == Run(s, 1, NotSlash)
                 IN Captures(s, m, m + Run(s, m + 1, Dot))
            ELSE NoCaptures

parse(s) ==
    IF s = <<>> THEN Req("Empty", <<>>, <<>>, <<>>, <<>>)
    ELSE IF starts_with(s, <<"/">>) THEN Req("ServerRelative", s, <<>>, <<>>, <<>>)
    ELSE IF starts_with(s, <<"#">>) THEN Req("PackageInternal", s, <<>>, <<>>, <<>>)
    ELSE IF starts_with(s, <<".", "/">>) \/ starts_with(s, <<".", ".", "/">>)
         THEN Req("Relative", s, <<>>, <<>>, <<>>)
    ELSE IF WINDOWS_PATH(s) THEN Req("Windows", s, <<>>, <<>>, <<>>)
    ELSE IF URI_PATH(s).matched
         THEN Req("Uri", <<>>, <<>>, URI_PATH(s).g1, URI_PATH(s).g2)
    ELSE IF MODULE_PATH(s).matched
         THEN Req("Module", MODULE_PATH(s).g2, MODULE_PATH(s).g1, <<>>, <<>>)
    ELSE Req("Unknown", s, <<>>, <<>>, <<>>)

\* Request::request
Request_request(r) ==
    CASE r.variant = "Relative" -> r.path
      [] r.variant = "Module" -> r.module \o r.path
      [] r.variant = "ServerRelative" -> r.path
      [] r.variant = "Windows" -> r.path
      [] r.variant = "Empty" -> <<>>
      [] r.variant = "PackageInternal" -> r.path
      [] r.variant = "Uri" -> r.protocol \o r.remainer
      [] r.variant = "Unknown" -> r.path

(* ---------------------------------------------------------------------- *)
(* Bounded input universes                                                  *)
(* ---------------------------------------------------------------------- *)

\* Largest number of nodes of a value handed to normalize.
NormNodes == 4

\* Largest number of nodes of a value handed to is_string.
StrNodes == 3

\* Largest number of consecutive normalize calls on one value.
MaxCalls == 2

CompositeKinds == ListKinds \cup {"Call", "Member", "Function"}

\* The number of children a variant can hold.
ArityOk(kind, list) ==
    CASE kind = "Call" -> Len(list) >= 1
      [] kind = "Member" -> Len(list) = 2
      [] kind = "Function" -> Len(list) = 1
      [] OTHER -> TRUE

\* All composite values whose children, in order, are one of the lists ls.
Composites(ls) ==
    {Mk(k, "", <<>>, l) : k \in ListKinds, l \in ls}
        \cup {Mk("Call", "", <<>>, l) : l \in {x \in ls : Len(x) >= 1}}
        \cup {Mk("Member", "", <<>>, l) : l \in {x \in ls : Len(x) = 2}}
        \cup {Mk("Function", "", <<>>, l) : l \in {x \in ls : Len(x) = 1}}

\* L[m + 1] is the set of lists of values of m nodes in all, built from the
\* sets of values of exactly j nodes; Grow extends L up to n nodes.
RECURSIVE Grow(_, _, _, _)
Grow(leaves, T, L, n) ==
    IF Len(T) >= n THEN L
    ELSE LET k == Len(T) + 1
             Tk == IF k = 1 THEN leaves \cup Composites({<<>>}) ELSE Composites(L[k])
             T1 == Append(T, Tk)
             Lk == UNION {{<<t>> \o r : t \in T1[j], r \in L[k - j + 1]} : j \in 1..k}
         IN Grow(leaves, T1, Append(L, Lk), n)

\* The lists of values over the given leaves with at most n nodes in all.
Lists(leaves, n) == LET L == Grow(leaves, <<>>, <<{<<>>}>>, n)
                    IN UNION {L[m + 1] : m \in 0..n}

\* v is a value over the given leaves with children drawn from ls.
IsInput(v, leaves, ls) ==
    \/ v \in leaves
    \/ \E l \in ls : \E k \in CompositeKinds : ArityOk(k, l) /\ v = Mk(k, "", <<>>, l)

NormLeaves == {StrConst(<<>>), StrConst(<<"a">>), Variable("x")}

AllLeaves ==
    {StrConst(<<"a">>), StrConst(<<>>), NumConst, Variable("x"),
     Mk("Url", "", <<"u">>, <<>>), Mk("Module", "", <<"m">>, <<>>),
     Mk("Argument", "", <<"0">>, <<>>), Default,
     FreeVar("Dirname"), FreeVar("Require"), FreeVar("Import"),
     FreeVar("RequireResolve"), Mk("FreeVar", "Other", <<"g">>, <<>>),
     Mk("WellKnownObject", "PathModule", <<>>, <<>>),
     Mk("WellKnownFunction", "RequireResolve", <<>>, <<>>)}

NormLists == Lists(NormLeaves, NormNodes - 1)

StrLists == Lists(AllLeaves, StrNodes - 1)

(* ---------------------------------------------------------------------- *)
(* normalize called repeatedly on one value                                 *)
(* ---------------------------------------------------------------------- *)

InitNorm ==
    /\ IsInput(self, NormLeaves, NormLists)
    /\ orig = self
    /\ prev = self
    /\ arg = Default
    /\ calls = 0
    /\ result = "none"
    /\ request = <<>>
    /\ parsed = NoRequest
    /\ NoVisit
    /\ NoLink

\* self.normalize()
Normalize ==
    /\ calls < MaxCalls
    /\ self' = normalize(self)
    /\ prev' = self
    /\ calls' = calls + 1
    /\ UNCHANGED <<orig, arg, result, request, parsed, visitVars, linkVars>>

NextNorm == Normalize

SpecNorm == InitNorm /\ [][NextNorm]_vars

(* ---------------------------------------------------------------------- *)
(* is_string applied to one value                                           *)
(* ---------------------------------------------------------------------- *)

InitStr ==
    /\ IsInput(self, AllLeaves, StrLists)
    /\ orig = self
    /\ prev = self
    /\ arg = Default
    /\ calls = 0
    /\ result = "none"
    /\ request = <<>>
    /\ parsed = NoRequest
    /\ NoVisit
    /\ NoLink

\* let r = self.is_string();
IsString ==
    /\ result = "none"
    /\ result' = (IF is_string(self) THEN "true" ELSE "false")
    /\ UNCHANGED <<self, orig, prev, arg, calls, request, parsed, visitVars, linkVars>>

NextStr == IsString

SpecStr == InitStr /\ [][NextStr]_vars

(* ---------------------------------------------------------------------- *)
(* add_alt called repeatedly on one value                                   *)
(* ---------------------------------------------------------------------- *)

\* Largest number of add_alt calls on one value.
MaxAdds == 4

AltValues ==
    {StrConst(<<"a">>), Variable("x"), Default,
     Alternatives(<<>>),
     Alternatives(<<StrConst(<<"a">>)>>),
     Alternatives(<<StrConst(<<"a">>), Variable("x")>>),
     Alternatives(<<StrConst(<<"a">>), StrConst(<<"a">>)>>),
     Concat(<<Variable("x")>>)}

InitAlt ==
    /\ self \in AltValues
    /\ self.kind = "Alternatives" =>
           \A i, j \in 1..Len(self.list) : i # j => self.list[i] # self.list[j]
    /\ orig = self
    /\ prev = self
    /\ arg = Default
    /\ calls = 0
    /\ result = "none"
    /\ request = <<>>
    /\ parsed = NoRequest
    /\ NoVisit
    /\ NoLink

\* self.add_alt(v)
AddAlt ==
    /\ calls < MaxAdds
    /\ \E v \in AltValues :
           /\ self' = add_alt(self, v)
           /\ arg' = v
    /\ prev' = self
    /\ calls' = calls + 1
    /\ UNCHANGED <<orig, result, request, parsed, visitVars, linkVars>>

NextAlt == AddAlt

SpecAlt == InitAlt /\ [][NextAlt]_vars

(* ---------------------------------------------------------------------- *)
(* visit_mut applied to one value                                           *)
(* ---------------------------------------------------------------------- *)

\* Largest number of direct children of a value handed to visit_mut.
MaxChildren == 3

\* Largest number of visitor calls one visit_mut can make: one for each
\* direct child and one for the value itself.
MaxVisits == MaxChildren + 1

VisitLeaves == {StrConst(<<"a">>), Variable("x")}

\* The direct children: leaves, and a value with a child of its own.
VisitChildren == VisitLeaves \cup {Array(<<Variable("x")>>)}

VisitLists == UNION {[1..n -> VisitChildren] : n \in 0..MaxChildren}

\* The visitor handed to visit_mut, an FnMut(&mut JsValue) -> bool: the call
\* that answers true has overwritten the node it was given.
visitor(node, answer) == IF answer THEN Default ELSE node

\* visitor(item) on the i-th child of st.val; ans[n] is the answer of the
\* n-th call.
VisitChild(st, i, ans) ==
    LET answer == ans[Len(st.log) + 1]
    IN [val |-> [st.val EXCEPT !.list[i] = visitor(@, answer)],
        log |-> Append(st.log, st.val.list[i]),
        modified |-> (IF answer THEN TRUE ELSE st.modified)]

\* for item in list.iter_mut() { if visitor(item) { modified = true } }
RECURSIVE VisitItems(_, _, _)
VisitItems(st, i, ans) ==
    IF i > Len(st.val.list) THEN st
    ELSE VisitItems(VisitChild(st, i, ans), i + 1, ans)

\* The Member arm with `modified || visitor(prop)`.
MemberArm_lazy(st, ans) ==
    LET s1 == VisitChild(st, 1, ans)
    IN IF s1.modified THEN s1 ELSE VisitChild(s1, 2, ans)

\* let modified = visitor(obj); visitor(prop) || modified
MemberArm(st, ans) == VisitChild(VisitChild(st, 1, ans), 2, ans)

for_each_children_mut(v, ans) ==
    LET st == [val |-> v, log |-> <<>>, modified |-> FALSE]
    IN CASE v.kind \in ListKinds -> VisitItems(st, 1, ans)
         [] v.kind = "Call" -> VisitItems(VisitChild(st, 1, ans), 2, ans)
         [] v.kind = "Function" -> VisitChild(st, 1, ans)
         [] v.kind = "Member" -> MemberArm(st, ans)
         [] OTHER -> st

visit_mut(v, ans) ==
    LET c == for_each_children_mut(v, ans)
        answer == ans[Len(c.log) + 1]
    IN [val |-> visitor(c.val, answer),
        log |-> Append(c.log, c.val),
        modified |-> (IF answer THEN TRUE ELSE c.modified)]

InitVisit ==
    /\ IsInput(self, VisitLeaves, VisitLists)
    /\ orig = self
    /\ prev = self
    /\ arg = Default
    /\ calls = 0
    /\ result = "none"
    /\ request = <<>>
    /\ parsed = NoRequest
    /\ answers \in [1..MaxVisits -> BOOLEAN]
    /\ visited = <<>>
    /\ NoLink

\* let r = self.visit_mut(&mut visitor);
VisitMut ==
    /\ calls = 0
    /\ LET r == visit_mut(self, answers)
       IN /\ self' = r.val
          /\ visited' = r.log
          /\ result' = r.modified
    /\ prev' = self
    /\ calls' = 1
    /\ UNCHANGED <<orig, arg, request, parsed, answers, linkVars>>

NextVisit == VisitMut

SpecVisit == InitVisit /\ [][NextVisit]_vars

(* ---------------------------------------------------------------------- *)
(* link: the linker of the design document, section 4.5                     *)
(* ---------------------------------------------------------------------- *)

Keys == {"a", "b", "c"}

\* Unknown(inner = Variable(k), "cyclic variable reference")
CyclicUnknown(k) == Mk("Unknown", "cyclic variable reference", <<k>>, <<>>)

\* Unknown(none, "no value of this variable analysed")
NoValueUnknown == Mk("Unknown", "no value of this variable analysed", <<>>, <<>>)

Dirname == StrConst(<<"_", "_", "d", "i", "r", "n", "a", "m", "e">>)

\* The values of graph entries and of the root.
LinkValues ==
    {Variable(k) : k \in Keys}
        \cup {Array(<<Variable("a"), Variable("b")>>),
              Array(<<Variable("b"), Variable("c")>>),
              Array(<<Variable("c"), Variable("a")>>)}
        \cup {FreeVar("Dirname"), Array(<<Variable("a"), FreeVar("Dirname")>>)}

\* The user hook U: V -> (V, modified?).
U(v) ==
    IF v = FreeVar("Dirname") THEN [val |-> Dirname, modified |-> TRUE]
    ELSE [val |-> v, modified |-> FALSE]

\* A fresh link cache: no key is resolved or in progress.
FreshCache == [k \in Keys |-> [state |-> "none", val |-> Default]]

\* A cache that keeps the key marked in progress when its value is linked.
Store_keep(c, k, r) == c

\* store the result as "resolved"
Store(c, k, r) == [c EXCEPT ![k] = [state |-> "resolved", val |-> r]]

\* A cache hit that hands back the variable instead of its linked value.
Resolved_unlinked(c, k) == Variable(k)

\* If C[k] is "resolved", return it.
Resolved(c, k) == c[k].val

\* A pending link(v): todo holds the children still to link, cur the child
\* being linked, key the variable whose graph entry v is ("" for none), and
\* pc is "link" while v is being linked, "await" while a Variable waits for
\* the link of its graph entry, "return" once the value to return is known.
Frame(v, key) ==
    [val |-> v, todo |-> 1..Len(v.list), cur |-> 0, key |-> key, pc |-> "link"]

Top == stack[Len(stack)]

\* link(Top.val) returns r to the link call that made it.
Return(r) ==
    LET f == Top
        rest == SubSeq(stack, 1, Len(stack) - 1)
    IN /\ cache' = (IF f.key # "" THEN Store(cache, f.key, r) ELSE cache)
       /\ IF rest = <<>>
          THEN /\ stack' = <<>>
               /\ linked' = Append(linked, [val |-> r, begun |-> begun])
          ELSE LET p == rest[Len(rest)]
                   q == IF p.pc = "await"
                        THEN [p EXCEPT !.val = r, !.pc = "return"]
                        ELSE [p EXCEPT !.val.list[p.cur] = r, !.cur = 0]
               IN /\ stack' = [rest EXCEPT ![Len(rest)] = q]
                  /\ linked' = linked

InitLink ==
    /\ self = Default
    /\ orig = Default
    /\ prev = Default
    /\ arg = Default
    /\ calls = 0
    /\ result = "none"
    /\ request = <<>>
    /\ parsed = NoRequest
    /\ NoVisit
    /\ graph \in UNION {[D -> LinkValues] : D \in SUBSET Keys}
    /\ root \in LinkValues
    /\ cache = FreshCache
    /\ stack = <<Frame(root, "")>>
    /\ linked = <<>>
    /\ hit = {}
    /\ begun = <<>>

otherVars == <<self, orig, prev, arg, calls, result, request, parsed, visitVars>>

\* Step 1: link a child of the node; the children are taken in any order.
Descend ==
    /\ stack # <<>>
    /\ Top.pc = "link" /\ Top.cur = 0
    /\ \E i \in Top.todo :
           stack' = Append([stack EXCEPT ![Len(stack)] =
                                [Top EXCEPT !.todo = @ \ {i}, !.cur = i]],
                           Frame(Top.val.list[i], ""))
    /\ UNCHANGED <<graph, root, cache, linked, hit, begun, otherVars>>

\* The node to link is Variable(VarKey).
AtVariable == stack # <<>> /\ Top.pc = "link" /\ Top.val.kind = "Variable"

VarKey == Top.val.str[1]

\* Step 2, C[k] is "resolved".
LinkResolved ==
    /\ AtVariable
    /\ cache[VarKey].state = "resolved"
    /\ Return(Resolved(cache, VarKey))
    /\ UNCHANGED <<graph, root, hit, begun, otherVars>>

\* Step 2, C[k] is "in progress".
LinkCyclic ==
    /\ AtVariable
    /\ cache[VarKey].state = "progress"
    /\ hit' = hit \cup {VarKey}
    /\ Return(CyclicUnknown(VarKey))
    /\ UNCHANGED <<graph, root, begun, otherVars>>

\* Step 2, k is absent from G.
LinkAbsent ==
    /\ AtVariable
    /\ cache[VarKey].state = "none"
    /\ VarKey \notin DOMAIN graph
    /\ Return(NoValueUnknown)
    /\ UNCHANGED <<graph, root, hit, begun, otherVars>>

\* Step 2, otherwise: mark C[k] = "in progress" and compute link(G[k]).
LinkBegin ==
    /\ AtVariable
    /\ cache[VarKey].state = "none"
    /\ VarKey \in DOMAIN graph
    /\ cache' = [cache EXCEPT ![VarKey].state = "progress"]
    /\ stack' = Append([stack EXCEPT ![Len(stack)] = [Top EXCEPT !.pc = "await"]],
                       Frame(graph[VarKey], VarKey))
    /\ begun' = Append(begun, VarKey)
    /\ UNCHANGED <<graph, root, linked, hit, otherVars>>

\* Step 2, the end: link(G[k]) has returned; return it.
LinkReturn ==
    /\ stack # <<>>
    /\ Top.pc = "return"
    /\ Return(Top.val)
    /\ UNCHANGED <<graph, root, hit, begun, otherVars>>

\* The children of the node are linked and the node is not a Variable.
AtHook ==
    /\ stack # <<>>
    /\ Top.pc = "link" /\ Top.cur = 0 /\ Top.todo = {}
    /\ Top.val.kind # "Variable"

\* Step 3, U reports modified: re-enter step 1 on the new node.
HookModified ==
    /\ AtHook
    /\ U(Top.val).modified
    /\ stack' = [stack EXCEPT ![Len(stack)] = Frame(U(Top.val).val, Top.key)]
    /\ UNCHANGED <<graph, root, cache, linked, hit, begun, otherVars>>

\* Step 3, U reports no change: finish.
HookUnmodified ==
    /\ AtHook
    /\ ~U(Top.val).modified
    /\ Return(Top.val)
    /\ UNCHANGED <<graph, root, hit, begun, otherVars>>

\* The same root is linked once more, with a fresh link cache.
Relink ==
    /\ stack = <<>>
    /\ Len(linked) = 1
    /\ cache' = FreshCache
    /\ stack' = <<Frame(root, "")>>
    /\ hit' = {}
    /\ begun' = <<>>
    /\ UNCHANGED <<graph, root, linked, otherVars>>

NextLink ==
    \/ Descend
    \/ LinkResolved
    \/ LinkCyclic
    \/ LinkAbsent
    \/ LinkBegin
    \/ LinkReturn
    \/ HookModified
    \/ HookUnmodified
    \/ Relink

\* Every step of the linker is taken once it can be: the linker's own
\* recursion does not block, and the hook's future resolves.
SpecLink == InitLink /\ [][NextLink]_vars /\ WF_vars(NextLink)

(* ---------------------------------------------------------------------- *)
(* parse applied to one request string                                      *)
(* ---------------------------------------------------------------------- *)

\* Largest length of a request string.
MaxReqLen == 5

Chars == {"/", "\\", "#", ".", ":", "@", "a", "1", "\n"}

Requests == UNION {[1..n -> Chars] : n \in 0..MaxReqLen}

InitParse ==
    /\ self = Default
    /\ orig = Default
    /\ prev = Default
    /\ arg = Default
    /\ calls = 0
    /\ result = "none"
    /\ request \in Requests
    /\ parsed = NoRequest
    /\ NoVisit
    /\ NoLink

\* let r = RequestRef::parse(request);
Parse ==
    /\ parsed = NoRequest
    /\ parsed' = parse(request)
    /\ UNCHANGED <<self, orig, prev, arg, calls, result, request, visitVars, linkVars>>

NextParse == Parse

SpecParse == InitParse /\ [][NextParse]_vars

(* ---------------------------------------------------------------------- *)
(* Properties of normalize                                                  *)
(* ---------------------------------------------------------------------- *)

\* Every node of a value: the value itself and the nodes of its children.
RECURSIVE Nodes(_)
Nodes(v) == {v} \cup UNION {Nodes(v.list[i]) : i \in 1..Len(v.list)}

\* The concatenation, in order, of the strings of a list of string constants.
RECURSIVE JoinStr(_)
JoinStr(list) == IF list = <<>> THEN <<>> ELSE Head(list).str \o JoinStr(Tail(list))

AllStrConst(list) == \A i \in 1..Len(list) : IsStrConst(list[i])

\* C1: normalize is idempotent: a second normalize leaves the value
\* produced by the first one structurally unchanged.
C1_NormalizeIdempotent == calls >= 2 => self = prev

\* C2: an Add whose operands are all string constants becomes, in one call
\* of normalize, the single string constant holding their concatenation.
C2_AddOfStringsIsConstant ==
    (calls = 1 /\ prev.kind = "Add" /\ Len(prev.list) >= 2 /\ AllStrConst(prev.list))
        => self = StrConst(JoinStr(prev.list))

ConcatListNormal(list) ==
    /\ \A i \in 1..Len(list) : ~IsEmptyStr(list[i]) /\ list[i].kind # "Concat"
    /\ \A i \in 1..(Len(list) - 1) : ~(IsStrConst(list[i]) /\ IsStrConst(list[i + 1]))

\* C3: after one normalize, every Concat node of the result has no empty
\* string constant, no Concat element and no two adjacent string constants.
C3_ConcatNormalForm ==
    calls = 1 => \A n \in Nodes(self) : n.kind = "Concat" => ConcatListNormal(n.list)

NoAlternativesElement(list) == \A i \in 1..Len(list) : list[i].kind # "Alternatives"

NoEqualElements(list) == \A i, j \in 1..Len(list) : i # j => list[i] # list[j]

\* C4: after one normalize, every Alternatives node of the result has no
\* Alternatives element and no two structurally equal elements.
C4_AlternativesNormalForm ==
    calls = 1 => \A n \in Nodes(self) :
        n.kind = "Alternatives" => NoAlternativesElement(n.list) /\ NoEqualElements(n.list)

\* The operands of an Add as its arm of normalize sees them.
NormalizedOperands(v) == [i \in 1..Len(v.list) |-> normalize(v.list[i])]

FirstString(list) == CHOOSE i \in 1..Len(list) :
    is_string(list[i]) /\ \A j \in 1..(i - 1) : ~is_string(list[j])

\* The Concat the specification describes for an Add with a string operand.
ClaimedConcat(list) ==
    LET i == FirstString(list)
        lead == SubSeq(list, 1, i - 1)
    IN Concat((IF Len(lead) = 0 THEN <<>>
               ELSE IF Len(lead) = 1 THEN lead ELSE <<Add(lead)>>)
              \o SubSeq(list, i, Len(list)))

\* C5: after one normalize, no Add node has an Add operand; an Add with a
\* string operand has become the Concat of its grouped leading non-string
\* operands, the first string operand and the rest; an Add without a string
\* operand keeps its operands.
C5_AddNormalForm ==
    calls = 1 =>
        /\ \A n \in Nodes(self) : n.kind = "Add" =>
               \A i \in 1..Len(n.list) : n.list[i].kind # "Add"
        /\ prev.kind = "Add" =>
               LET ops == NormalizedOperands(prev)
               IN IF \E i \in 1..Len(ops) : is_string(ops[i])
                  THEN self = ClaimedConcat(ops)
                  ELSE self = Add(ops)

\* C6: after one normalize, no Concat, Add, Alternatives or Array node has
\* an empty list and no Concat or Add node has exactly one element.
C6_NoEmptyNoSingleton ==
    calls = 1 => \A n \in Nodes(self) :
        /\ n.kind \in ListKinds => Len(n.list) # 0
        /\ n.kind \in {"Concat", "Add"} => Len(n.list) # 1

(* ---------------------------------------------------------------------- *)
(* Properties of add_alt                                                    *)
(* ---------------------------------------------------------------------- *)

\* What the specification says add_alt(v) does to the value s.
ClaimedAddAlt(s, v) ==
    IF v = s \/ (s.kind = "Alternatives" /\ v \in {s.list[i] : i \in 1..Len(s.list)})
    THEN s
    ELSE IF s.kind = "Alternatives"
         THEN Alternatives(s.list \o <<v>>)
         ELSE Alternatives(<<s, v>>)

RECURSIVE ClaimedString(_)
ClaimedString(v) ==
    \/ v.kind = "Constant" /\ v.tag = "Str"
    \/ v.kind = "Concat"
    \/ v = FreeVar("Dirname")
    \/ v.kind = "Call" /\ v.list[1] = FreeVar("RequireResolve")
    \/ v.kind = "Add" /\ \E i \in 1..Len(v.list) : ClaimedString(v.list[i])
    \/ v.kind = "Alternatives" /\ \A i \in 1..Len(v.list) : ClaimedString(v.list[i])

\* C8: is_string answers true exactly for a string Constant, a Concat, the
\* DIRNAME FreeVar, a Call of the REQUIRE_RESOLVE FreeVar, an Add with a
\* string operand and an Alternatives of string operands only.
C8_IsStringForms == result # "none" => (result = "true" <=> ClaimedString(self))

\* An Add answered true because of an operand that is a nonempty
\* Alternatives of strings.
C8_Witness ==
    /\ result = "true"
    /\ self.kind = "Add"
    /\ \E i \in 1..Len(self.list) :
           self.list[i].kind = "Alternatives" /\ Len(self.list[i].list) >= 1

(* ---------------------------------------------------------------------- *)
(* Properties of parse                                                      *)
(* ---------------------------------------------------------------------- *)

\* s has a prefix of the form [^/\\]+ ':' '/' . as the URI pattern asks.
MatchesUri(s) ==
    \E i \in 1..Len(s) :
        /\ \A j \in 1..i : s[j] \notin {"/", "\\"}
        /\ i + 3 <= Len(s)
        /\ s[i + 1] = ":"
        /\ s[i + 2] = "/"
        /\ s[i + 3] # "\n"

\* s has a prefix of the form (@[^/]+/)?[^/]+ as the module pattern asks.
MatchesModule(s) == s # <<>> /\ s[1] # "/"

\* The variant the specification's ordered rules give the string s.
Classify(s) ==
    CASE s = <<>> -> "Empty"
      [] s # <<>> /\ s[1] = "/" -> "ServerRelative"
      [] s # <<>> /\ s[1] = "#" -> "PackageInternal"
      [] Len(s) >= 2 /\ s[1] = "." /\ s[2] = "/" -> "Relative"
      [] Len(s) >= 3 /\ s[1] = "." /\ s[2] = "." /\ s[3] = "/" -> "Relative"
      [] Len(s) >= 3 /\ s[1] \in Letters /\ s[2] = ":" /\ s[3] = "\\" -> "Windows"
      [] Len(s) >= 2 /\ s[1] = "\\" /\ s[2] = "\\" -> "Windows"
      [] MatchesUri(s) -> "Uri"
      [] MatchesModule(s) -> "Module"
      [] OTHER -> "Unknown"

\* C9: parse answers for every string, with the variant of the first rule
\* that matches in the order Empty, ServerRelative, PackageInternal,
\* Relative, Windows, Uri, Module, Unknown; the variants that store a path
\* store the string unchanged.
C9_ParseClassifies ==
    parsed # NoRequest =>
        /\ parsed.variant = Classify(request)
        /\ parsed.variant \in {"ServerRelative", "PackageInternal", "Relative",
                               "Windows", "Unknown"} => parsed.path = request

\* A UNC-style string of two backslashes and more was classified.
C9_Witness ==
    /\ parsed.variant = "Windows"
    /\ Len(request) >= 3
    /\ request[1] = "\\"

\* The position of the first '/' of s at or after i, Len(s) + 1 if none.
FirstSlash(s, i) == i + Run(s, i, {"/"})

\* s begins with '@', a non-slash character, up to a '/', and a non-slash
\* character after it.
Scoped(s) ==
    /\ s # <<>> /\ s[1] = "@"
    /\ FirstSlash(s, 2) >= 3
    /\ FirstSlash(s, 2) + 1 <= Len(s)
    /\ s[FirstSlash(s, 2) + 1] # "/"

\* C10: for a string classified as Module the module capture is nonempty and
\* is the scoped name '@scope/name' or else the text before the first '/',
\* and the path capture is the rest of the string, empty or starting with '/'.
C10_ModuleCaptures ==
    parsed.variant = "Module" =>
        LET s == request
            m == parsed.module
            p == parsed.path
        IN /\ m # <<>>
           /\ m = IF Scoped(s)
                  THEN SubSeq(s, 1, FirstSlash(s, FirstSlash(s, 2) + 1) - 1)
                  ELSE SubSeq(s, 1, FirstSlash(s, 1) - 1)
           /\ p = SubSeq(s, Len(m) + 1, Len(s))
           /\ (p = <<>> \/ p[1] = "/")

\* C11: for a string classified as Uri the protocol capture is the text
\* before the first '/', of two characters or more, ending with ':' and free
\* of backslashes, and the remainer capture starts at that first '/' and has
\* two characters or more.
C11_UriCaptures ==
    parsed.variant = "Uri" =>
        LET s == request
            f == FirstSlash(s, 1)
            p == parsed.protocol
            r == parsed.remainer
        IN /\ p = SubSeq(s, 1, f - 1)
           /\ Len(p) >= 2
           /\ p[Len(p)] = ":"
           /\ \A i \in 1..Len(p) : p[i] # "\\"
           /\ Len(r) >= 2
           /\ r[1] = "/"
           /\ r = SubSeq(s, f, f + Len(r) - 1)

\* A Uri whose remainer stops at a line break, before the end of the string.
C11_Witness ==
    /\ parsed.variant = "Uri"
    /\ Len(parsed.protocol) + Len(parsed.remainer) < Len(request)

\* C16: request() gives back the string that was parsed, for every string,
\* line breaks included.
C16_RequestRoundTrip == parsed # NoRequest => Request_request(parsed) = request

\* C17: parse never returns Unknown: a nonempty string outside the prefix
\* rules, the Windows rule and the Uri rule starts with a character other
\* than '/' and is classified as Module.
C17_NeverUnknown ==
    parsed # NoRequest =>
        /\ parsed.variant # "Unknown"
        /\ parsed.variant \notin {"Empty", "ServerRelative", "PackageInternal",
                                  "Relative", "Windows", "Uri"}
               => parsed.variant = "Module" /\ request[1] # "/"

\* A string with a line break right after the module name was classified
\* as Module.
C17_Witness ==
    /\ parsed.variant = "Module"
    /\ Len(request) > Len(parsed.module)
    /\ request[Len(parsed.module) + 1] = "/"
    /\ \E i \in 1..Len(request) : request[i] = "\n"

\* C15: normalize keeps string-ness: a value that is_string before one
\* normalize is_string after it, and an Add with an operand that is_string
\* before the call has become a Concat.
C15_NormalizeKeepsString ==
    calls = 1 =>
        /\ is_string(prev) => is_string(self)
        /\ (prev.kind = "Add" /\ \E i \in 1..Len(prev.list) : is_string(prev.list[i]))
               => self.kind = "Concat"

\* C14: visit_mut calls the visitor once on each direct child, in order
\* (callee before arguments, object before property), whatever the earlier
\* calls answered, then once on the value itself, and returns true exactly
\* when one of those calls answered true.
C14_VisitMutCallsAndFlag ==
    calls = 1 =>
        LET n == Len(prev.list)
        IN /\ Len(visited) = n + 1
           /\ \A i \in 1..n : visited[i] = prev.list[i]
           /\ visited[n + 1].kind = prev.kind
           /\ visited[n + 1].str = prev.str
           /\ Len(visited[n + 1].list) = n
           /\ \A i \in 1..n :
                  visited[n + 1].list[i] = visitor(prev.list[i], answers[i])
           /\ self = visitor(visited[n + 1], answers[n + 1])
           /\ result = (\E i \in 1..(n + 1) : answers[i])

\* A Member whose object the visitor changed and whose property it then
\* visited and left alone, as it did the Member itself.
C14_Witness ==
    /\ calls = 1
    /\ prev.kind = "Member"
    /\ answers[1] /\ ~answers[2] /\ ~answers[3]
    /\ Len(visited) = 3
    /\ visited[2] = prev.list[2]
    /\ result = TRUE

\* u occurs in v, as v itself or below it.
RECURSIVE Occurs(_, _)
Occurs(u, v) == u = v \/ \E i \in 1..Len(v.list) : Occurs(u, v.list[i])

\* The keys of the variables that occur in v.
RECURSIVE Refs(_)
Refs(v) ==
    IF v.kind = "Variable" THEN {v.str[1]}
    ELSE UNION {Refs(v.list[i]) : i \in 1..Len(v.list)}

\* The keys reached from the keys in S through the entries of the graph.
RECURSIVE Reach(_)
Reach(S) ==
    LET T == S \cup UNION {Refs(graph[k]) : k \in S \cap DOMAIN graph}
    IN IF T = S THEN S ELSE Reach(T)

\* k is on a reference cycle of the graph.
OnCycle(k) == k \in DOMAIN graph /\ k \in Reach(Refs(graph[k]))

LastLinked == linked[Len(linked)].val

\* C12: linking with a fresh cache terminates, also on a graph with a
\* reference cycle; when it has returned no key is marked in progress, the
\* result contains Unknown(Variable(k), "cyclic variable reference") for every
\* key k that was met again while in progress, and a linked variable that is
\* on a cycle is such a key.
C12_CycleSafety ==
    /\ <>[](stack = <<>>)
    /\ [](stack = <<>> =>
              /\ \A k \in Keys : cache[k].state # "progress"
              /\ \A k \in hit : Occurs(CyclicUnknown(k), LastLinked)
              /\ \A k \in Keys : root = Variable(k) /\ OnCycle(k) => k \in hit)

\* link(Variable(a)) has returned on the cycle a := b; b := c; c := a.
C12_Witness ==
    /\ stack = <<>>
    /\ root = Variable("a")
    /\ DOMAIN graph = Keys
    /\ graph["a"] = Variable("b")
    /\ graph["b"] = Variable("c")
    /\ graph["c"] = Variable("a")
    /\ hit = {"a"}
    /\ LastLinked = CyclicUnknown("a")

Acyclic == \A k \in Reach(Refs(root)) : ~OnCycle(k)

====
